---------------------------- MODULE Spec2Model ----------------------------
(***************************************************************************)
(* A model of the speech-segmentation pipeline of hono-audio-api:          *)
(*   - the WAV container codec   (src/src/lib/audio/audio-service.ts)      *)
(*   - the VAD loader            (src/src/lib/vad/vadLoader.ts)            *)
(*   - the VAD service           (src/src/services/vad-service.ts)         *)
(*   - the /transcribe route     (src/src/api/v1/speech-to-text.ts)        *)
(*                                                                         *)
(* Three specifications share the variables:                               *)
(*   SpecWav    byte-level container parsing, mono extraction, encoding    *)
(*   Spec       overlapping pipeline invocations over the global VAD       *)
(*              handle, the frame loop and the segment accumulator         *)
(*   SpecFilter the segment filter on arbitrary segment lists              *)
(*                                                                         *)
(* Number representation.  A byte buffer is a sequence of 0..255, offset o *)
(* of the code being element o+1.  Times are integer microseconds and      *)
(* probabilities are integers scaled by ProbScale, so that the code's      *)
(* float arithmetic is exact on the values drawn here.                     *)
(***************************************************************************)
EXTENDS Integers, Sequences, FiniteSets, TLC

VARIABLES
    \* ---- container codec (SpecWav) ----
    wpc,        \* position of the request in parse / extract / route
    buf,        \* the input ArrayBuffer
    origin,     \* how buf was made: the arguments of createWAVBuffer, or foreign
    offset,     \* parseWAVHeader: let offset
    hdr,        \* parseWAVHeader: dataOffset, dataSize, sampleRate, channels, bitsPerSample
    seenFmt,    \* history: the audioFormat values of the fmt chunks the loop has read
    wres,       \* what parseWAVHeader returned or threw
    mono,       \* what extractMonoAudio returned or threw
    status      \* HTTP status the route answered with (0: none yet)

wavVars == <<wpc, buf, origin, offset, hdr, seenFmt, wres, mono, status>>

VARIABLES
    \* ---- vadLoader.ts module state (Spec) ----
    vadModule,      \* the loaded WASM module (0: null)
    vadHandle,      \* the classifier handle (0: null)
    vadHandlePtr,   \* the malloc'ed cell the handle was returned through (0: null)
    isInitialized,
    modules,        \* number of WASM modules loadTENVAD has instantiated
    handles,        \* per handle created: its module, its creating invocation, who fed it
    ptrs,           \* per handle cell malloc'ed: "live" or "freed"
    \* ---- the invocations (requests to /transcribe) ----
    pc,             \* per invocation: where it is suspended
    frameCount,     \* per invocation: const frameCount of processAudioWithVAD
    fi,             \* per invocation: the loop variable i
    thrown,         \* per invocation: the message of the Error it threw (<<>>: none)
    resp,           \* per invocation: the HTTP status answered (0: none yet)
    tracked,        \* whether the data of the observed invocation is followed
    \* ---- the data of the observed invocation ----
    audio,          \* mono sample count and sample rate after parse and extract
    acc,            \* speechFrames, totalProbability, segments, currentSegment
    trace,          \* history: the outcome of each processAudioFrame call so far
    vadResult,      \* what processAudioWithVAD returned
    extracted,      \* what extractSpeechSegments returned
    response        \* the body of the 200 answer: vadStats and audioStats

loaderVars == <<vadModule, vadHandle, vadHandlePtr, isInitialized, modules, handles, ptrs>>
procVars == <<pc, frameCount, fi, thrown, resp, tracked>>
dataVars == <<audio, acc, trace, vadResult, extracted, response>>
vadVars == <<loaderVars, procVars, dataVars>>

VARIABLES
    \* ---- the segment filter on its own (SpecFilter) ----
    filt            \* the arguments of filterSpeechSegments and its results

VARIABLES
    out,            \* SpecWav: the buffer extractSpeechSegments encodes from kept samples
    mrg,            \* SpecMerge: the argument of mergeAudioSegments and its result
    scen,           \* SpecScenario: how the classifier answers in the scenario
    calls           \* SpecLoader: history of the calls made to vadLoader.ts

vars == <<wavVars, vadVars, filt, out, mrg, scen, calls>>
\* what the steps of one part of the model leave alone
notWav == <<vadVars, filt, out, mrg, scen, calls>>
notVad == <<wavVars, filt, out, mrg, scen, calls>>
notFilt == <<wavVars, vadVars, out, mrg, scen, calls>>

--------------------------------------------------------------------------
(* Bounds of the model *)

\* createWAVBuffer inputs hold at most MaxSamples samples
MaxSamples == 3
\* a foreign container holds at most MaxChunks chunks after its 12-byte head
MaxChunks == 2
\* a foreign container is cut short by at most MaxCut trailing bytes
MaxCut == 2
\* the observed invocation's audio holds at most MaxFrames whole frames
MaxFrames == 3
\* an arbitrary segment list given to the filter holds at most MaxSegments segments
MaxSegments == 3
\* a caller of vadLoader.ts makes at most MaxCalls calls after loading the module
MaxCalls == 4

--------------------------------------------------------------------------
(* Bytes, little-endian fields, tags *)

Pow8 == 2^8
Pow16 == 2^16
Pow24 == 2^24

\* "RIFF", "WAVE", "fmt ", "data" as char codes, and a tag that is none of them
TagRIFF == <<82, 73, 70, 70>>
TagWAVE == <<87, 65, 86, 69>>
TagFmt  == <<102, 109, 116, 32>>
TagData == <<100, 97, 116, 97>>
TagLIST == <<76, 73, 83, 84>>
TagRIFX == <<82, 73, 70, 88>>
TagAVI  == <<65, 86, 73, 32>>

\* DataView.getUint8 / getUint16(.., true) / getUint32(.., true) at byte offset o
GetUint8(b, o) == b[o + 1]
GetUint16(b, o) == b[o + 1] + Pow8 * b[o + 2]
GetUint32(b, o) ==
    b[o + 1] + Pow8 * b[o + 2] + Pow16 * b[o + 3] + Pow24 * b[o + 4]

\* String.fromCharCode(getUint8(o), .., getUint8(o+3))
TagAt(b, o) == <<GetUint8(b, o), GetUint8(b, o + 1), GetUint8(b, o + 2), GetUint8(b, o + 3)>>

\* DataView.setUint16 / setUint32 (little-endian): the value modulo 2^16 / 2^32.
\* The model's integers end at 2^31 - 1: every 32-bit field drawn or computed here
\* is below 2^31, where the value modulo 2^32 is the value itself.
U16Bytes(v) == <<(v % Pow16) % Pow8, (v % Pow16) \div Pow8>>
U32Bytes(v) ==
    <<v % Pow8, (v \div Pow8) % Pow8, (v \div Pow16) % Pow8, (v \div Pow24) % Pow8>>

\* an Int16Array element as its two bytes, and back (two's complement)
Int16Bytes(s) == U16Bytes(s % Pow16)
Int16OfMutant(lo, hi) == lo + Pow8 * hi
Int16Of(lo, hi) ==
    LET u == lo + Pow8 * hi
    IN  IF u >= 32768 THEN u - Pow16 ELSE u

\* the bytes of an Int16Array, and the Int16Array view of an even number of bytes
SampleBytes(samples) ==
    [i \in 1..(2 * Len(samples)) |->
        Int16Bytes(samples[(i + 1) \div 2])[IF i % 2 = 1 THEN 1 ELSE 2]]
Int16View(bytes) ==
    [i \in 1..(Len(bytes) \div 2) |-> Int16Of(bytes[2 * i - 1], bytes[2 * i])]

\* ArrayBuffer.slice(from, to), clamped to the buffer
Slice(b, from, to) ==
    LET f == IF from > Len(b) THEN Len(b) ELSE from
        t == IF to > Len(b) THEN Len(b) ELSE to
    IN  IF t <= f THEN <<>> ELSE SubSeq(b, f + 1, t)

--------------------------------------------------------------------------
(* Error messages, as character sequences so that String.includes is computed *)

\* "Invalid WAV file: missing RIFF header"
MsgMissingRIFF ==
    <<"I","n","v","a","l","i","d"," ","W","A","V"," ","f","i","l","e",
      ":"," ","m","i","s","s","i","n","g"," ","R","I","F","F"," ","h",
      "e","a","d","e","r">>
\* "Invalid WAV file: not WAVE format"
MsgNotWAVE ==
    <<"I","n","v","a","l","i","d"," ","W","A","V"," ","f","i","l","e",
      ":"," ","n","o","t"," ","W","A","V","E"," ","f","o","r","m","a",
      "t">>
\* "Unsupported WAV format: only PCM is supported"
MsgNotPCM ==
    <<"U","n","s","u","p","p","o","r","t","e","d"," ","W","A","V"," ",
      "f","o","r","m","a","t",":"," ","o","n","l","y"," ","P","C","M",
      " ","i","s"," ","s","u","p","p","o","r","t","e","d">>
\* "Unsupported bit depth: only 16-bit is supported"
MsgBitDepth ==
    <<"U","n","s","u","p","p","o","r","t","e","d"," ","b","i","t"," ",
      "d","e","p","t","h",":"," ","o","n","l","y"," ","1","6","-","b",
      "i","t"," ","i","s"," ","s","u","p","p","o","r","t","e","d">>
\* "Invalid WAV file: no data chunk found"
MsgNoData ==
    <<"I","n","v","a","l","i","d"," ","W","A","V"," ","f","i","l","e",
      ":"," ","n","o"," ","d","a","t","a"," ","c","h","u","n","k"," ",
      "f","o","u","n","d">>
\* the RangeError of a DataView read past the end of the buffer
MsgOutOfBounds ==
    <<"O","f","f","s","e","t"," ","i","s"," ","o","u","t","s","i","d",
      "e"," ","t","h","e"," ","b","o","u","n","d","s"," ","o","f"," ",
      "t","h","e"," ","D","a","t","a","V","i","e","w">>
\* the RangeError of new Int16Array(buffer) on an odd number of bytes
MsgOddLength ==
    <<"b","y","t","e"," ","l","e","n","g","t","h"," ","o","f"," ","I",
      "n","t","1","6","A","r","r","a","y"," ","s","h","o","u","l","d",
      " ","b","e"," ","a"," ","m","u","l","t","i","p","l","e"," ","o",
      "f"," ","2">>
\* "Failed to create VAD instance"
MsgCreateFailed ==
    <<"F","a","i","l","e","d"," ","t","o"," ","c","r","e","a","t","e",
      " ","V","A","D"," ","i","n","s","t","a","n","c","e">>
\* WhisperService.getClient: "OPENAI_API_KEY environment variable is required"
MsgApiKeyRequired ==
    <<"O","P","E","N","A","I","_","A","P","I","_","K","E","Y"," ","e",
      "n","v","i","r","o","n","m","e","n","t"," ","v","a","r","i","a",
      "b","l","e"," ","i","s"," ","r","e","q","u","i","r","e","d">>
\* WhisperService.transcribeAudio: "Transcription failed: Unknown error"
MsgTranscriptionFailed ==
    <<"T","r","a","n","s","c","r","i","p","t","i","o","n"," ","f","a",
      "i","l","e","d",":"," ","U","n","k","n","o","w","n"," ","e","r",
      "r","o","r">>
\* the substrings the route's catch block looks for
MarkInvalidAudioFormat ==
    <<"I","n","v","a","l","i","d"," ","a","u","d","i","o"," ","f","o",
      "r","m","a","t">>
MarkInvalidWAVFile ==
    <<"I","n","v","a","l","i","d"," ","W","A","V"," ","f","i","l","e">>
MarkApiKey ==
    <<"O","P","E","N","A","I","_","A","P","I","_","K","E","Y">>
MarkQuota ==
    <<"q","u","o","t","a"," ","e","x","c","e","e","d","e","d">>
MarkRateLimit ==
    <<"r","a","t","e"," ","l","i","m","i","t">>
MarkModelNotFound ==
    <<"m","o","d","e","l","_","n","o","t","_","f","o","u","n","d">>

\* the five format errors parseWAVHeader raises itself
FormatMsgs == {MsgMissingRIFF, MsgNotWAVE, MsgNotPCM, MsgBitDepth, MsgNoData}

\* String.prototype.includes
Includes(s, sub) ==
    \E i \in 0..(Len(s) - Len(sub)) : SubSeq(s, i + 1, i + Len(sub)) = sub

\* the catch block of the /transcribe handler: status code from the message
RouteStatusMutant(errorMessage) ==
    IF Includes(errorMessage, MarkInvalidAudioFormat) THEN 400
    ELSE IF Includes(errorMessage, MarkApiKey) THEN 401
    ELSE IF Includes(errorMessage, MarkQuota) \/ Includes(errorMessage, MarkRateLimit) THEN 429
    ELSE IF Includes(errorMessage, MarkModelNotFound) THEN 503
    ELSE 500
RouteStatus(errorMessage) ==
    IF Includes(errorMessage, MarkInvalidAudioFormat)
       \/ Includes(errorMessage, MarkInvalidWAVFile) THEN 400
    ELSE IF Includes(errorMessage, MarkApiKey) THEN 401
    ELSE IF Includes(errorMessage, MarkQuota) \/ Includes(errorMessage, MarkRateLimit) THEN 429
    ELSE IF Includes(errorMessage, MarkModelNotFound) THEN 503
    ELSE 500

--------------------------------------------------------------------------
(* AudioService.createWAVBuffer *)

\* with the RIFF size field holding the whole length
createWAVBufferMutant(audioData, sampleRate, channels) ==
    LET dataSize == Len(audioData) * 2
    IN  TagRIFF \o U32Bytes(44 + dataSize) \o TagWAVE
        \o TagFmt \o U32Bytes(16) \o U16Bytes(1) \o U16Bytes(channels)
        \o U32Bytes(sampleRate) \o U32Bytes(sampleRate * channels * 2)
        \o U16Bytes(channels * 2) \o U16Bytes(16)
        \o TagData \o U32Bytes(dataSize)
        \o SampleBytes(audioData)
createWAVBuffer(audioData, sampleRate, channels) ==
    LET bitsPerSample == 16
        bytesPerSample == bitsPerSample \div 8
        dataSize == Len(audioData) * bytesPerSample
        headerSize == 44
        totalSize == headerSize + dataSize
    IN  TagRIFF \o U32Bytes(totalSize - 8) \o TagWAVE
        \o TagFmt \o U32Bytes(16) \o U16Bytes(1) \o U16Bytes(channels)
        \o U32Bytes(sampleRate) \o U32Bytes(sampleRate * channels * bytesPerSample)
        \o U16Bytes(channels * bytesPerSample) \o U16Bytes(bitsPerSample)
        \o TagData \o U32Bytes(dataSize)
        \o SampleBytes(audioData)

\* AudioService.calculateDuration, in microseconds
calculateDuration(audioData, sampleRate) == (Len(audioData) * 1000000) \div sampleRate

--------------------------------------------------------------------------
(* AudioService.parseWAVHeader, one loop iteration per step *)

NoError == <<>>
Thrown(m) == [kind |-> "error", msg |-> m, header |-> NoError]
Returned(h) == [kind |-> "header", msg |-> NoError, header |-> h]
NotYet == [kind |-> "none", msg |-> NoError, header |-> NoError]

\* the locals of parseWAVHeader before the loop (lines 54-59)
HdrInit == [dataOffset |-> -1, dataSize |-> 0, sampleRate |-> 0, channels |-> 0,
            bitsPerSample |-> 0]

\* the two checks at the head of parseWAVHeader: NoError, or the message thrown
HeadCheck(b) ==
    IF Len(b) < 4 THEN MsgOutOfBounds
    ELSE IF TagAt(b, 0) # TagRIFF THEN MsgMissingRIFF
    ELSE IF Len(b) < 12 THEN MsgOutOfBounds
    ELSE IF TagAt(b, 8) # TagWAVE THEN MsgNotWAVE
    ELSE NoError

\* while (offset < buffer.byteLength - 8)
LoopCond(off, byteLength) == off < byteLength - 8

\* the fmt branch's two validations: NoError, or the message thrown
FmtCheckMutant(audioFormat, bitsPerSample) ==
    IF audioFormat # 1 THEN MsgNotPCM ELSE NoError
FmtCheck(audioFormat, bitsPerSample) ==
    IF audioFormat # 1 THEN MsgNotPCM
    ELSE IF bitsPerSample # 16 THEN MsgBitDepth
    ELSE NoError

\* offset += 8 + chunkSize, plus one when chunkSize is odd
NextOffsetUnaligned(off, chunkSize) == off + 8 + chunkSize
NextOffsetPayloadOnly(off, chunkSize) == off + chunkSize + (chunkSize % 2)
NextOffset(off, chunkSize) ==
    LET o == off + 8 + chunkSize
    IN  IF chunkSize % 2 = 1 THEN o + 1 ELSE o

\* the object parseWAVHeader returns; the two quotients are kept as <<num, den>>
\* pairs of the float division (a zero denominator is Infinity or NaN)
MakeHeader(h) ==
    [sampleRate |-> h.sampleRate, channels |-> h.channels,
     bitsPerSample |-> h.bitsPerSample, dataOffset |-> h.dataOffset,
     dataSize |-> h.dataSize,
     totalSamples |-> <<h.dataSize * 8, h.bitsPerSample>>,
     samplesPerChannel |-> <<h.dataSize * 8, h.bitsPerSample * h.channels>>]

\* the result after the loop: lines 97-109
AfterLoopMutant(h) == Returned(MakeHeader(h))
AfterLoop(h) ==
    IF h.dataOffset = -1 THEN Thrown(MsgNoData) ELSE Returned(MakeHeader(h))

--------------------------------------------------------------------------
(* AudioService.extractMonoAudio *)

\* every channels-th sample of the interleaved data, starting with the first
FirstChannelMutant(raw, channels) ==
    [i \in 1..(Len(raw) \div channels) |-> raw[i * channels]]
FirstChannel(raw, channels) ==
    [i \in 1..(Len(raw) \div channels) |-> raw[(i - 1) * channels + 1]]

MonoThrown(m) == [kind |-> "error", msg |-> m, samples |-> <<>>]
MonoReturned(x) == [kind |-> "samples", msg |-> NoError, samples |-> x]
MonoNotYet == [kind |-> "none", msg |-> NoError, samples |-> <<>>]

extractMonoAudio(buffer, wavInfo) ==
    LET audioBuffer == Slice(buffer, wavInfo.dataOffset, wavInfo.dataOffset + wavInfo.dataSize)
    IN  IF Len(audioBuffer) % 2 = 1 THEN MonoThrown(MsgOddLength)
        ELSE LET rawAudioData == Int16View(audioBuffer)
             IN  IF wavInfo.channels > 1
                 THEN MonoReturned(FirstChannel(rawAudioData, wavInfo.channels))
                 ELSE MonoReturned(rawAudioData)

--------------------------------------------------------------------------
(* The inputs of SpecWav: the arguments of an encode, or a foreign container *)

\* sample values: both bytes and the sign take part
SampleVals == {-32768, -1, 0, 255, 32767}
SampleSeqs == UNION {[1..n -> SampleVals] : n \in 0..MaxSamples}
\* sample rates of the header's uint32 field; 2^28 reaches its top byte
SampleRates == {8000, 16000, 2^28}

EncodeArgs ==
    [kind : {"encoded"}, samples : SampleSeqs, sampleRate : SampleRates, channels : {1, 2}]

\* a chunk: tag, declared size, the payload bytes actually present
Chunk(tag, declaredSize, payload) == tag \o U32Bytes(declaredSize) \o payload

\* the 16-byte payload of a fmt chunk
FmtPayload(audioFormat, channels, sampleRate, bits) ==
    U16Bytes(audioFormat) \o U16Bytes(channels) \o U32Bytes(sampleRate)
    \o U32Bytes(sampleRate * channels * (bits \div 8))
    \o U16Bytes(channels * (bits \div 8)) \o U16Bytes(bits)

FmtVariants ==
    {[af |-> 1, ch |-> 1, bits |-> 16], [af |-> 1, ch |-> 2, bits |-> 16],
     [af |-> 1, ch |-> 0, bits |-> 16], [af |-> 3, ch |-> 1, bits |-> 16],
     [af |-> 1, ch |-> 1, bits |-> 8],  [af |-> 3, ch |-> 2, bits |-> 8]}

ForeignChunks ==
    {Chunk(TagFmt, 16, FmtPayload(f.af, f.ch, 16000, f.bits)) : f \in FmtVariants}
    \cup {Chunk(TagLIST, 0, <<>>),          \* an empty chunk
          Chunk(TagLIST, 1, <<7, 0>>),      \* odd size, with its pad byte
          Chunk(TagLIST, 3, <<7, 7, 7>>),   \* odd size, the pad byte missing
          Chunk(TagLIST, 2^30, <<7, 7>>)}   \* declares far more than is there
    \cup {Chunk(TagData, 2 * Len(x), SampleBytes(x)) :
            x \in {<<>>, <<1>>, <<1, -2>>, <<1, -2, 3, -4>>}}
    \cup {Chunk(TagData, 8, SampleBytes(<<1>>)),   \* declares more than is there
          Chunk(TagData, 3, <<1, 0, 2>>)}          \* an odd number of bytes

\* the first 12 bytes: right, wrong in either tag, or cut short
Heads ==
    {TagRIFF \o U32Bytes(36) \o TagWAVE, TagRIFX \o U32Bytes(36) \o TagWAVE,
     TagRIFF \o U32Bytes(36) \o TagAVI, <<>>, <<82, 73, 70>>}

RECURSIVE Flatten(_)
Flatten(ss) == IF ss = <<>> THEN <<>> ELSE Head(ss) \o Flatten(Tail(ss))

ChunkSeqs == UNION {[1..n -> ForeignChunks] : n \in 0..MaxChunks}

DropLast(b, k) == IF k >= Len(b) THEN <<>> ELSE SubSeq(b, 1, Len(b) - k)

ForeignBuffers ==
    {DropLast(h \o Flatten(cs), k) : h \in Heads, cs \in ChunkSeqs, k \in 0..MaxCut}

--------------------------------------------------------------------------
(* vadLoader.ts and VADService.processAudioWithVAD: values and pure steps *)

\* VAD_CONFIG.HOP_SIZE
HOP_SIZE == 256
\* VAD_CONFIG.SAMPLE_RATE
SAMPLE_RATE == 16000

\* Probabilities are integers over ProbScale (= 1.0).  The values drawn are dyadic,
\* and fine enough that MaxFrames halvings stay integers, as they stay exact in the
\* code's binary floats.
ProbUnit == 2^MaxFrames
ProbScale == 4 * ProbUnit
ProbLo == ProbUnit
ProbHi == 3 * ProbUnit

\* what one processAudioFrame call can do: throw (ten_vad_process returned non-zero),
\* or return {probability, isSpeech}
FrameFail == [kind |-> "fail", probability |-> 0, isSpeech |-> FALSE]
FrameResult(prob, flag) == [kind |-> "result", probability |-> prob, isSpeech |-> flag]
Outcomes ==
    {FrameFail, FrameResult(ProbLo, FALSE), FrameResult(ProbLo, TRUE), FrameResult(ProbHi, TRUE)}

\* seconds as integer microseconds: samples / sampleRate.  The sample rates of the
\* model are multiples of 500, and 1000000 / sampleRate is taken as 2000 / (sampleRate
\* / 500) to keep the product of five seconds of samples within the integers.
TimeOf(samples, sampleRate) == (samples * 2000) \div (sampleRate \div 500)

\* const frameCount = Math.floor(audioData.length / HOP_SIZE)
\* (the mutant rounds up)
FrameCountOfMutant(length) == (length + HOP_SIZE - 1) \div HOP_SIZE
FrameCountOf(length) == length \div HOP_SIZE

FrameStart(i) == i * HOP_SIZE
FrameEnd(i, length) ==
    IF FrameStart(i) + HOP_SIZE < length THEN FrameStart(i) + HOP_SIZE ELSE length

\* audioData.slice(frameStart, frameEnd): the samples [from, to) of the input
FrameData(i, length) == [from |-> FrameStart(i), to |-> FrameEnd(i, length)]

\* number of samples of a list of slices
\* (summed by halves: the lists of the five-second scenario hold a slice per frame)
RECURSIVE DataLength(_)
DataLength(d) ==
    IF d = <<>> THEN 0
    ELSE IF Len(d) = 1 THEN d[1].to - d[1].from
    ELSE LET half == Len(d) \div 2
         IN  DataLength(SubSeq(d, 1, half)) + DataLength(SubSeq(d, half + 1, Len(d)))

\* the locals of processAudioWithVAD before the loop (lines 26-32); currentSegment is
\* <<>> for null and <<segment>> for an open segment
AccInit == [speechFrames |-> 0, totalProbability |-> 0, segments |-> <<>>,
            currentSegment |-> <<>>]

\* lines 58-66
\* (the mutant takes the frame's end for the start time)
NewSegmentMutant(i, length, sampleRate, result) ==
    [startFrame |-> FrameStart(i),
     endFrame |-> FrameEnd(i, length),
     startTime |-> TimeOf(FrameEnd(i, length), sampleRate),
     endTime |-> TimeOf(FrameStart(i), sampleRate) + TimeOf(HOP_SIZE, sampleRate),
     data |-> <<FrameData(i, length)>>,
     isSpeech |-> TRUE,
     probability |-> result.probability]
NewSegment(i, length, sampleRate, result) ==
    [startFrame |-> FrameStart(i),
     endFrame |-> FrameEnd(i, length),
     startTime |-> TimeOf(FrameStart(i), sampleRate),
     endTime |-> TimeOf(FrameStart(i), sampleRate) + TimeOf(HOP_SIZE, sampleRate),
     data |-> <<FrameData(i, length)>>,
     isSpeech |-> TRUE,
     probability |-> result.probability]

\* lines 69-79
\* (the mutant leaves out lines 73-76, the merge of the frame's samples)
\* (this mutant keeps the arithmetic mean of the frames' probabilities)
ExtendSegmentMean(seg, i, length, sampleRate, result) ==
    [seg EXCEPT !.endFrame = FrameEnd(i, length),
                !.endTime = TimeOf(FrameStart(i), sampleRate) + TimeOf(HOP_SIZE, sampleRate),
                !.data = seg.data \o <<FrameData(i, length)>>,
                !.probability = (seg.probability * Len(seg.data) + result.probability)
                                    \div (Len(seg.data) + 1)]
ExtendSegmentMutant(seg, i, length, sampleRate, result) ==
    [seg EXCEPT !.endFrame = FrameEnd(i, length),
                !.endTime = TimeOf(FrameStart(i), sampleRate) + TimeOf(HOP_SIZE, sampleRate),
                !.probability = (seg.probability + result.probability) \div 2]
ExtendSegment(seg, i, length, sampleRate, result) ==
    [seg EXCEPT !.endFrame = FrameEnd(i, length),
                !.endTime = TimeOf(FrameStart(i), sampleRate) + TimeOf(HOP_SIZE, sampleRate),
                !.data = seg.data \o <<FrameData(i, length)>>,
                !.probability = (seg.probability + result.probability) \div 2]

\* the catch block of the frame loop, lines 89-91: the locals stay as they were
OnFrameErrorMutant(a) ==
    IF a.currentSegment # <<>>
    THEN [a EXCEPT !.segments = Append(a.segments, a.currentSegment[1]),
                   !.currentSegment = <<>>]
    ELSE a
OnFrameError(a) == a

\* the non-speech branch, lines 81-88
OnSilence(a) ==
    IF a.currentSegment # <<>>
    THEN [a EXCEPT !.segments = Append(a.segments, a.currentSegment[1]),
                   !.currentSegment = <<>>]
    ELSE a

\* the body of the try block for frame i, lines 48-88
OnFrameResult(a, i, length, sampleRate, result) ==
    LET a1 == [a EXCEPT !.totalProbability = a.totalProbability + result.probability]
    IN  IF result.isSpeech
        THEN LET a2 == [a1 EXCEPT !.speechFrames = a1.speechFrames + 1]
             IN  IF a2.currentSegment = <<>>
                 THEN [a2 EXCEPT !.currentSegment =
                                     <<NewSegment(i, length, sampleRate, result)>>]
                 ELSE [a2 EXCEPT !.currentSegment =
                                     <<ExtendSegment(a2.currentSegment[1], i, length,
                                                     sampleRate, result)>>]
        ELSE OnSilence(a1)

\* one loop iteration, lines 36-91
StepAcc(a, i, length, sampleRate, outcome) ==
    IF outcome.kind = "fail" THEN OnFrameError(a)
    ELSE OnFrameResult(a, i, length, sampleRate, outcome)

\* lines 94-111.  The two float quotients are kept as <<numerator, denominator>>.
\* without the guards of lines 100-101
FinishAccUnguarded(a, count) ==
    LET segs == IF a.currentSegment # <<>>
                THEN Append(a.segments, a.currentSegment[1]) ELSE a.segments
    IN  [totalFrames |-> count,
         speechFrames |-> a.speechFrames,
         speechPercentage |-> <<a.speechFrames * 100, count>>,
         hasSpeech |-> a.speechFrames > 0,
         avgProbability |-> <<a.totalProbability, count>>,
         segments |-> segs]
FinishAccMutant(a, count) ==
    [totalFrames |-> count,
     speechFrames |-> a.speechFrames,
     speechPercentage |-> IF count > 0 THEN <<a.speechFrames * 100, count>> ELSE <<0, 1>>,
     hasSpeech |-> a.speechFrames > 0,
     avgProbability |-> IF count > 0 THEN <<a.totalProbability, count>> ELSE <<0, 1>>,
     segments |-> a.segments]
FinishAcc(a, count) ==
    LET segs == IF a.currentSegment # <<>>
                THEN Append(a.segments, a.currentSegment[1]) ELSE a.segments
    IN  [totalFrames |-> count,
         speechFrames |-> a.speechFrames,
         speechPercentage |-> IF count > 0 THEN <<a.speechFrames * 100, count>> ELSE <<0, 1>>,
         hasSpeech |-> a.speechFrames > 0,
         avgProbability |-> IF count > 0 THEN <<a.totalProbability, count>> ELSE <<0, 1>>,
         segments |-> segs]
NoVadResult == FinishAcc(AccInit, 0)

--------------------------------------------------------------------------
(* AudioService.filterSpeechSegments, mergeAudioSegments *)

\* the predicate of the filter: durationMs >= minDurationMs, in microseconds
KeepSegmentMutant(segment, minDurationMs, minProbability) ==
    /\ segment.endTime - segment.startTime >= minDurationMs * 1000
    /\ segment.probability >= minProbability
KeepSegment(segment, minDurationMs, minProbability) ==
    /\ segment.isSpeech
    /\ segment.endTime - segment.startTime >= minDurationMs * 1000
    /\ segment.probability >= minProbability

filterSpeechSegmentsMutant(segments, minDurationMs, minProbability) ==
    LET kept == SelectSeq(segments,
                          LAMBDA segment : KeepSegment(segment, minDurationMs, minProbability))
    IN  IF kept = <<>> THEN kept ELSE SubSeq(kept, 1, Len(kept) - 1)
filterSpeechSegments(segments, minDurationMs, minProbability) ==
    SelectSeq(segments, LAMBDA segment : KeepSegment(segment, minDurationMs, minProbability))

\* with each segment written in front of the ones before it
RECURSIVE mergeAudioSegmentsMutant(_)
mergeAudioSegmentsMutant(segments) ==
    IF segments = <<>> THEN <<>>
    ELSE mergeAudioSegmentsMutant(Tail(segments)) \o Head(segments).data
RECURSIVE mergeAudioSegments(_)
mergeAudioSegments(segments) ==
    IF segments = <<>> THEN <<>>
    ELSE Head(segments).data \o mergeAudioSegments(Tail(segments))

--------------------------------------------------------------------------
(* The invocations of Spec, and the initial values of both halves of the state *)

\* Requests to /transcribe.  Under Spec one invocation, the observed one, runs and
\* all its data is followed.  Under SpecConc the invocations overlap and only their
\* control state and their calls into vadLoader.ts are followed: buffers and
\* segments are locals of each invocation and touch nothing the loader reads.
Observed == "observed"
Procs == {Observed, "second"}
Tracked(p) == tracked /\ p = Observed

NotExtracted ==
    [returned |-> FALSE, speechFound |-> FALSE, originalBuffer |-> <<>>,
     processedBuffer |-> <<>>, vadResult |-> NoVadResult, filteredSegments |-> <<>>,
     minDurationMs |-> 0, minProbability |-> 0]

NoResponse ==
    [vadStats |-> [totalFrames |-> 0, speechFrames |-> 0, speechPercentage |-> <<0, 1>>,
                   segmentsFound |-> 0, segmentsKept |-> 0],
     audioStats |-> [originalDurationMs |-> 0, processedDurationMs |-> 0,
                     compressionRatio |-> <<0, 1>>, processedSizeBytes |-> 0]]

VadIdle ==
    /\ vadModule = 0
    /\ vadHandle = 0
    /\ vadHandlePtr = 0
    /\ isInitialized = FALSE
    /\ modules = 0
    /\ handles = <<>>
    /\ ptrs = <<>>
    /\ pc = [p \in Procs |-> "idle"]
    /\ frameCount = [p \in Procs |-> 0]
    /\ fi = [p \in Procs |-> 0]
    /\ thrown = [p \in Procs |-> NoError]
    /\ resp = [p \in Procs |-> 0]
    /\ tracked \in BOOLEAN
    /\ audio = [length |-> 0, sampleRate |-> 16000]
    /\ acc = AccInit
    /\ trace = <<>>
    /\ vadResult = NoVadResult
    /\ extracted = NotExtracted
    /\ response = NoResponse

OutNone == [kind |-> "none", samples |-> <<>>, bytes |-> <<>>]
MrgIdle == [stage |-> "idle", segments |-> <<>>, merged |-> <<>>]
ScenIdle == [stage |-> "idle", straddling |-> {}, probability |-> 0]
\* the parts of the state that only SpecWav, SpecMerge and SpecScenario use, at rest
OthersIdle == out = OutNone /\ mrg = MrgIdle /\ scen = ScenIdle /\ calls = <<>>

FiltIdle == [stage |-> "idle", segments |-> <<>>, minDurationMs |-> 0,
             minProbability |-> 0, once |-> <<>>, twice |-> <<>>]

WavIdle ==
    /\ wpc = "idle"
    /\ buf = <<>>
    /\ origin = [kind |-> "foreign"]
    /\ offset = 0
    /\ hdr = HdrInit
    /\ seenFmt = <<>>
    /\ wres = NotYet
    /\ mono = MonoNotYet
    /\ status = 0

--------------------------------------------------------------------------
(* SpecWav: one request's buffer through encode, parse, extract, route *)

InitWav ==
    /\ \/ /\ origin \in EncodeArgs
          /\ wpc = "encode"
          /\ buf = <<>>
       \/ /\ origin = [kind |-> "foreign"]
          /\ wpc = "parse"
          /\ buf \in ForeignBuffers
    /\ offset = 0
    /\ hdr = HdrInit
    /\ seenFmt = <<>>
    /\ wres = NotYet
    /\ mono = MonoNotYet
    /\ status = 0
    /\ VadIdle
    /\ ~tracked
    /\ filt = FiltIdle
    /\ OthersIdle

\* createWAVBuffer(samples, sampleRate, channels) makes the buffer that is parsed next
Encode ==
    /\ wpc = "encode"
    /\ buf' = createWAVBuffer(origin.samples, origin.sampleRate, origin.channels)
    /\ wpc' = "parse"
    /\ UNCHANGED <<origin, offset, hdr, seenFmt, wres, mono, status, notWav>>

\* parseWAVHeader lines 36-59
ParseHead ==
    /\ wpc = "parse"
    /\ IF HeadCheck(buf) # NoError
       THEN /\ wres' = Thrown(HeadCheck(buf))
            /\ wpc' = "threw"
            /\ UNCHANGED <<offset, hdr>>
       ELSE /\ offset' = 12
            /\ hdr' = HdrInit
            /\ wpc' = "loop"
            /\ UNCHANGED wres
    /\ UNCHANGED <<buf, origin, seenFmt, mono, status, notWav>>

\* one iteration of the while loop, lines 62-95
ParseChunk ==
    /\ wpc = "loop"
    /\ LoopCond(offset, Len(buf))
    /\ LET chunkId == TagAt(buf, offset)
           chunkSize == GetUint32(buf, offset + 4)
       IN  IF chunkId = TagFmt
           THEN IF offset + 24 > Len(buf)
                THEN \* one of the four DataView reads is past the end
                     /\ wres' = Thrown(MsgOutOfBounds)
                     /\ wpc' = "threw"
                     /\ UNCHANGED <<offset, hdr, seenFmt>>
                ELSE LET audioFormat == GetUint16(buf, offset + 8)
                         bits == GetUint16(buf, offset + 22)
                     IN  /\ hdr' = [hdr EXCEPT !.channels = GetUint16(buf, offset + 10),
                                               !.sampleRate = GetUint32(buf, offset + 12),
                                               !.bitsPerSample = bits]
                         /\ seenFmt' = Append(seenFmt, [audioFormat |-> audioFormat,
                                                        bitsPerSample |-> bits])
                         /\ IF FmtCheck(audioFormat, bits) # NoError
                            THEN /\ wres' = Thrown(FmtCheck(audioFormat, bits))
                                 /\ wpc' = "threw"
                                 /\ UNCHANGED offset
                            ELSE /\ offset' = NextOffset(offset, chunkSize)
                                 /\ UNCHANGED <<wres, wpc>>
           ELSE IF chunkId = TagData
           THEN /\ hdr' = [hdr EXCEPT !.dataOffset = offset + 8, !.dataSize = chunkSize]
                /\ wpc' = "after"
                /\ UNCHANGED <<offset, seenFmt, wres>>
           ELSE /\ offset' = NextOffset(offset, chunkSize)
                /\ UNCHANGED <<hdr, seenFmt, wres, wpc>>
    /\ UNCHANGED <<buf, origin, mono, status, notWav>>

\* the loop condition fails
ParseLoopExit ==
    /\ wpc = "loop"
    /\ ~LoopCond(offset, Len(buf))
    /\ wpc' = "after"
    /\ UNCHANGED <<buf, origin, offset, hdr, seenFmt, wres, mono, status, notWav>>

\* lines 97-109: throw for a missing data chunk, or return the header
ParseReturn ==
    /\ wpc = "after"
    /\ wres' = AfterLoop(hdr)
    /\ wpc' = IF AfterLoop(hdr).kind = "error" THEN "threw" ELSE "parsed"
    /\ UNCHANGED <<buf, origin, offset, hdr, seenFmt, mono, status, notWav>>

\* extractSpeechSegments line 139
ExtractMono ==
    /\ wpc = "parsed"
    /\ mono' = extractMonoAudio(buf, wres.header)
    /\ wpc' = IF extractMonoAudio(buf, wres.header).kind = "error" THEN "threw" ELSE "vad"
    /\ UNCHANGED <<buf, origin, offset, hdr, seenFmt, wres, status, notWav>>

\* extractSpeechSegments lines 174-181: the samples of the kept segments, a run of
\* the mono samples here, are encoded as a container of one channel
Reencode ==
    /\ wpc = "vad"
    /\ \E a \in 1..Len(mono.samples) : \E b \in a..Len(mono.samples) :
          LET mergedAudioData == SubSeq(mono.samples, a, b)
          IN  out' = [kind |-> "encoded", samples |-> mergedAudioData,
                      bytes |-> createWAVBuffer(mergedAudioData,
                                                wres.header.sampleRate, 1)]
    /\ wpc' = "encoded"
    /\ UNCHANGED <<buf, origin, offset, hdr, seenFmt, wres, mono, status,
                   vadVars, filt, mrg, scen, calls>>

\* the handler's catch block answers the request
RouteCatch ==
    /\ wpc = "threw"
    /\ status' = RouteStatus(IF wres.kind = "error" THEN wres.msg ELSE mono.msg)
    /\ wpc' = "answered"
    /\ UNCHANGED <<buf, origin, offset, hdr, seenFmt, wres, mono, notWav>>

NextWav ==
    \/ Encode
    \/ ParseHead
    \/ ParseChunk
    \/ ParseLoopExit
    \/ ParseReturn
    \/ ExtractMono
    \/ Reencode
    \/ RouteCatch

SpecWav == InitWav /\ [][NextWav]_vars

\* the same, with the request's code run to its end: nothing in parseWAVHeader,
\* extractMonoAudio or the catch block waits for anything
SpecWavFair == SpecWav /\ WF_vars(NextWav)

--------------------------------------------------------------------------
(* Spec and SpecConc: /transcribe requests over the loader's module state *)

\* the inputs of the observed invocation
SampleCounts == {k * HOP_SIZE + r : k \in 0..MaxFrames, r \in {0, 100}}
VadRates == {8000, 16000}
MinDurations == {0, 20, 200}
MinProbabilities == {0, 2 * ProbUnit}

\* what the container stage can throw (SpecWav reaches each of them)
ParseThrows == FormatMsgs \cup {MsgOutOfBounds, MsgOddLength}
\* what the transcription collaborator can throw
WhisperThrows == {MsgApiKeyRequired, MsgTranscriptionFailed}

\* the uploaded buffer and a buffer made by createWAVBuffer, by their sample slices
UploadBuffer(length, sampleRate) ==
    [kind |-> "upload", samples |-> <<[from |-> 0, to |-> length]>>,
     sampleRate |-> sampleRate, channels |-> 1]
EncodedBuffer(samples, sampleRate, channels) ==
    [kind |-> "created", samples |-> samples, sampleRate |-> sampleRate,
     channels |-> channels]

\* extractSpeechSegments from the filter on, lines 156-198
ExtractTailMutant(originalBuffer, vr, sampleRate, minDurationMs, minProbability) ==
    LET filteredSegments == filterSpeechSegments(vr.segments, minDurationMs, minProbability)
    IN  [returned |-> TRUE, speechFound |-> TRUE,
         originalBuffer |-> originalBuffer,
         processedBuffer |->
             EncodedBuffer(mergeAudioSegments(filteredSegments), sampleRate, 1),
         vadResult |-> vr, filteredSegments |-> filteredSegments,
         minDurationMs |-> minDurationMs, minProbability |-> minProbability]
ExtractTail(originalBuffer, vr, sampleRate, minDurationMs, minProbability) ==
    LET filteredSegments == filterSpeechSegments(vr.segments, minDurationMs, minProbability)
    IN  IF Len(filteredSegments) = 0
        THEN [returned |-> TRUE, speechFound |-> FALSE,
              originalBuffer |-> originalBuffer, processedBuffer |-> originalBuffer,
              vadResult |-> vr, filteredSegments |-> filteredSegments,
              minDurationMs |-> minDurationMs, minProbability |-> minProbability]
        ELSE [returned |-> TRUE, speechFound |-> TRUE,
              originalBuffer |-> originalBuffer,
              processedBuffer |->
                  EncodedBuffer(mergeAudioSegments(filteredSegments), sampleRate, 1),
              vadResult |-> vr, filteredSegments |-> filteredSegments,
              minDurationMs |-> minDurationMs, minProbability |-> minProbability]

\* the handler's audioStats, lines 204-226: both buffers are parsed and extracted
\* again and their durations taken (here in microseconds); the quotient is kept as
\* <<numerator, denominator>>.  originalSizeBytes, the length of the upload, is not
\* followed.
AudioStatsOf(e) ==
    LET originalDurationMs ==
            TimeOf(DataLength(e.originalBuffer.samples), e.originalBuffer.sampleRate)
        processedDurationMs ==
            TimeOf(DataLength(e.processedBuffer.samples), e.processedBuffer.sampleRate)
    IN  [originalDurationMs |-> originalDurationMs,
         processedDurationMs |-> processedDurationMs,
         compressionRatio |-> <<processedDurationMs, originalDurationMs>>,
         processedSizeBytes |-> 44 + 2 * DataLength(e.processedBuffer.samples)]

\* the handler's vadStats, lines 257-264
VadStatsOf(vr) ==
    [totalFrames |-> vr.totalFrames,
     speechFrames |-> vr.speechFrames,
     speechPercentage |-> vr.speechPercentage,
     segmentsFound |-> Len(vr.segments),
     segmentsKept |-> Len(SelectSeq(vr.segments, LAMBDA s : s.isSpeech))]

\* the response of lines 250-270, as far as it is computed from the VAD stage
ResponseBody(e) == [vadStats |-> VadStatsOf(e.vadResult), audioStats |-> AudioStatsOf(e)]

\* JavaScript runs each continuation to its next await: while an invocation is
\* inside its (synchronous) frame loop no other invocation takes a step
Sync(p) == \A q \in Procs \ {p} : pc[q] # "loop"

\* The handler starts: extractSpeechSegments parses and extracts (lines 127-139),
\* processAudioWithVAD calls initializeVAD, which calls loadVADModule (lines 18-23)
\* and suspends there.
StartMutant(p) ==
    /\ pc[p] = "idle"
    /\ Sync(p)
    /\ \/ \E m \in ParseThrows : thrown' = [thrown EXCEPT ![p] = m]
       \/ UNCHANGED thrown
    /\ IF Tracked(p)
       THEN \E n \in SampleCounts, sr \in VadRates :
                audio' = [length |-> n, sampleRate |-> sr]
       ELSE UNCHANGED audio
    /\ pc' = [pc EXCEPT ![p] = IF isInitialized THEN "awaitLoad" ELSE "loading"]
    /\ UNCHANGED <<loaderVars, frameCount, fi, resp, tracked, acc, trace, vadResult, extracted, response, notVad>>
Start(p) ==
    /\ pc[p] = "idle"
    /\ Sync(p)
    /\ \/ \E m \in ParseThrows :
            /\ thrown' = [thrown EXCEPT ![p] = m]
            /\ pc' = [pc EXCEPT ![p] = "threw"]
            /\ UNCHANGED audio
       \/ /\ IF Tracked(p)
             THEN \E n \in SampleCounts, sr \in VadRates :
                      audio' = [length |-> n, sampleRate |-> sr]
             ELSE UNCHANGED audio
          /\ pc' = [pc EXCEPT ![p] = IF isInitialized THEN "awaitLoad" ELSE "loading"]
          /\ UNCHANGED thrown
    /\ UNCHANGED <<loaderVars, frameCount, fi, resp, tracked, acc, trace, vadResult, extracted, response, notVad>>

\* loadVADModule lines 23-26: loadTENVAD() resolves
LoadResolve(p) ==
    /\ pc[p] = "loading"
    /\ Sync(p)
    /\ modules' = modules + 1
    /\ vadModule' = modules + 1
    /\ isInitialized' = TRUE
    /\ pc' = [pc EXCEPT ![p] = "awaitLoad"]
    /\ UNCHANGED <<vadHandle, vadHandlePtr, handles, ptrs, frameCount, fi, thrown, resp, tracked,
                   dataVars, notVad>>

\* initializeVAD lines 195-197 with createVADInstance lines 45-64
CreateInstance(p) ==
    /\ pc[p] = "awaitLoad"
    /\ Sync(p)
    /\ vadHandlePtr' = Len(ptrs) + 1
    /\ \/ \* ten_vad_create returned 0
          /\ handles' = Append(handles, [module |-> vadModule, creator |-> p, fedBy |-> {}])
          /\ vadHandle' = Len(handles) + 1
          /\ ptrs' = Append(ptrs, "live")
          /\ pc' = [pc EXCEPT ![p] = "awaitInit"]
          /\ UNCHANGED thrown
       \/ \* ten_vad_create failed: the cell is freed, createVADInstance returns false
          /\ ptrs' = Append(ptrs, "freed")
          /\ thrown' = [thrown EXCEPT ![p] = MsgCreateFailed]
          /\ pc' = [pc EXCEPT ![p] = "threw"]
          /\ UNCHANGED <<handles, vadHandle>>
    /\ UNCHANGED <<vadModule, isInitialized, modules, frameCount, fi, resp, tracked, dataVars, notVad>>

\* processAudioWithVAD lines 23-32
LoopStart(p) ==
    /\ pc[p] = "awaitInit"
    /\ Sync(p)
    /\ IF Tracked(p)
       THEN /\ frameCount' = [frameCount EXCEPT ![p] = FrameCountOf(audio.length)]
            /\ acc' = AccInit
            /\ trace' = <<>>
       ELSE /\ \E k \in 0..MaxFrames : frameCount' = [frameCount EXCEPT ![p] = k]
            /\ UNCHANGED <<acc, trace>>
    /\ fi' = [fi EXCEPT ![p] = 0]
    /\ pc' = [pc EXCEPT ![p] = "loop"]
    /\ UNCHANGED <<loaderVars, thrown, resp, tracked, audio, vadResult, extracted, response, notVad>>

\* one iteration of the frame loop, lines 35-92, with processAudioFrame (lines 82-114)
Frame(p) ==
    /\ pc[p] = "loop"
    /\ fi[p] < frameCount[p]
    /\ IF vadModule = 0 \/ vadHandle = 0
       THEN \* processAudioFrame throws 'VAD not initialized'
            /\ UNCHANGED handles
            /\ IF Tracked(p)
               THEN /\ acc' = StepAcc(acc, fi[p], audio.length, audio.sampleRate, FrameFail)
                    /\ trace' = Append(trace, FrameFail)
               ELSE UNCHANGED <<acc, trace>>
       ELSE /\ handles' = [handles EXCEPT ![vadHandle].fedBy = @ \cup {p}]
            /\ IF Tracked(p)
               THEN \E o \in Outcomes :
                        /\ acc' = StepAcc(acc, fi[p], audio.length, audio.sampleRate, o)
                        /\ trace' = Append(trace, o)
               ELSE UNCHANGED <<acc, trace>>
    /\ fi' = [fi EXCEPT ![p] = fi[p] + 1]
    /\ UNCHANGED <<vadModule, vadHandle, vadHandlePtr, isInitialized, modules, ptrs,
                   pc, frameCount, thrown, resp, tracked, audio, vadResult, extracted, response, notVad>>

\* processAudioWithVAD lines 94-111: the loop is over, the result is returned
LoopEnd(p) ==
    /\ pc[p] = "loop"
    /\ fi[p] = frameCount[p]
    /\ IF Tracked(p)
       THEN vadResult' = FinishAcc(acc, frameCount[p])
       ELSE UNCHANGED vadResult
    /\ pc' = [pc EXCEPT ![p] = "awaitVAD"]
    /\ UNCHANGED <<loaderVars, frameCount, fi, thrown, resp, tracked, audio, acc, trace, extracted,
                   response, notVad>>

\* extractSpeechSegments lines 148-198, with the request's two thresholds
FilterMerge(p) ==
    /\ pc[p] = "awaitVAD"
    /\ Sync(p)
    /\ IF Tracked(p)
       THEN \E d \in MinDurations, q \in MinProbabilities :
                extracted' = ExtractTail(UploadBuffer(audio.length, audio.sampleRate),
                                         vadResult, audio.sampleRate, d, q)
       ELSE UNCHANGED extracted
    /\ pc' = [pc EXCEPT ![p] = "awaitExtract"]
    /\ UNCHANGED <<loaderVars, frameCount, fi, thrown, resp, tracked, audio, acc, trace, vadResult,
                   response, notVad>>

\* the handler after extractSpeechSegments, lines 192-242
RouteAfterVAD(p) ==
    /\ pc[p] = "awaitExtract"
    /\ Sync(p)
    /\ \/ /\ Tracked(p) => ~extracted.speechFound
          /\ resp' = [resp EXCEPT ![p] = 400]
          /\ pc' = [pc EXCEPT ![p] = "answered"]
       \/ /\ Tracked(p) => extracted.speechFound
          /\ pc' = [pc EXCEPT ![p] = "awaitWhisper"]
          /\ UNCHANGED resp
    /\ UNCHANGED <<loaderVars, frameCount, fi, thrown, tracked, dataVars, notVad>>

\* the handler after WhisperService.transcribeAudio, lines 244-274
Transcribe(p) ==
    /\ pc[p] = "awaitWhisper"
    /\ Sync(p)
    /\ \/ /\ resp' = [resp EXCEPT ![p] = 200]
          /\ pc' = [pc EXCEPT ![p] = "answered"]
          /\ IF Tracked(p) THEN response' = ResponseBody(extracted)
                           ELSE UNCHANGED response
          /\ UNCHANGED thrown
       \/ \E m \in WhisperThrows :
            /\ thrown' = [thrown EXCEPT ![p] = m]
            /\ pc' = [pc EXCEPT ![p] = "threw"]
            /\ UNCHANGED <<resp, response>>
    /\ UNCHANGED <<loaderVars, frameCount, fi, tracked, audio, acc, trace, vadResult,
                   extracted, notVad>>

\* the handler's catch block, lines 276-304
Catch(p) ==
    /\ pc[p] = "threw"
    /\ Sync(p)
    /\ resp' = [resp EXCEPT ![p] = RouteStatus(thrown[p])]
    /\ pc' = [pc EXCEPT ![p] = "answered"]
    /\ UNCHANGED <<loaderVars, frameCount, fi, thrown, tracked, dataVars, notVad>>

\* a step of invocation p
Step(p) ==
    \/ Start(p)
    \/ LoadResolve(p)
    \/ CreateInstance(p)
    \/ LoopStart(p)
    \/ Frame(p)
    \/ LoopEnd(p)
    \/ FilterMerge(p)
    \/ RouteAfterVAD(p)
    \/ Transcribe(p)
    \/ Catch(p)

\* Spec: the observed invocation alone, its data followed
Init == VadIdle /\ WavIdle /\ tracked /\ filt = FiltIdle /\ OthersIdle
Next == Step(Observed)
Spec == Init /\ [][Next]_vars

\* SpecConc: overlapping invocations, control state and loader calls only
InitConc == VadIdle /\ WavIdle /\ ~tracked /\ filt = FiltIdle /\ OthersIdle
NextConc == \E p \in Procs : Step(p)
SpecConc == InitConc /\ [][NextConc]_vars

--------------------------------------------------------------------------
(* SpecFilter: filterSpeechSegments on arbitrary segment lists, applied twice *)

\* segments as a caller may pass them: speech or not, one or two hops long at
\* 16 kHz, of low or high probability
AnySegments ==
    {[startFrame |-> 0, endFrame |-> e * HOP_SIZE, startTime |-> 0,
      endTime |-> TimeOf(e * HOP_SIZE, 16000), data |-> <<[from |-> 0, to |-> e * HOP_SIZE]>>,
      isSpeech |-> b, probability |-> q] :
        e \in {1, 2}, b \in BOOLEAN, q \in {ProbLo, ProbHi}}
AnySegmentLists == UNION {[1..n -> AnySegments] : n \in 0..MaxSegments}

\* the thresholds given to the filter: those of a request, and the duration and the
\* probability that some segment has exactly
FilterDurations == MinDurations \cup {TimeOf(2 * HOP_SIZE, 16000) \div 1000}
FilterProbabilities == MinProbabilities \cup {ProbHi}

InitFilter ==
    /\ VadIdle
    /\ ~tracked
    /\ WavIdle
    /\ OthersIdle
    /\ \E ss \in AnySegmentLists, d \in FilterDurations, q \in FilterProbabilities :
          filt = [stage |-> "input", segments |-> ss, minDurationMs |-> d,
                  minProbability |-> q, once |-> <<>>, twice |-> <<>>]

FilterOnce ==
    /\ filt.stage = "input"
    /\ filt' = [filt EXCEPT
                  !.once = filterSpeechSegments(filt.segments, filt.minDurationMs,
                                                filt.minProbability),
                  !.stage = "once"]
    /\ UNCHANGED notFilt

FilterAgain ==
    /\ filt.stage = "once"
    /\ filt' = [filt EXCEPT
                  !.twice = filterSpeechSegments(filt.once, filt.minDurationMs,
                                                 filt.minProbability),
                  !.stage = "twice"]
    /\ UNCHANGED notFilt

NextFilter == FilterOnce \/ FilterAgain

SpecFilter == InitFilter /\ [][NextFilter]_vars

--------------------------------------------------------------------------
(* SpecScenario: the five-second stream of generateTestWAV through the pipeline *)

\* 5 seconds at 16 kHz; speech-like signal in [1 s, 2 s) and [2.5 s, 4 s), by samples
ScenarioSamples == 5 * SAMPLE_RATE
ScenarioSpeech ==
    {[from |-> SAMPLE_RATE, to |-> 2 * SAMPLE_RATE],
     [from |-> (5 * SAMPLE_RATE) \div 2, to |-> 4 * SAMPLE_RATE]}
ScenarioFrames == 0..(FrameCountOf(ScenarioSamples) - 1)

\* frame i lies in a speech interval, or apart from both, or neither: it straddles
\* the start of one
InsideSpeech(i) ==
    \E s \in ScenarioSpeech :
        s.from <= FrameStart(i) /\ FrameEnd(i, ScenarioSamples) <= s.to
OutsideSpeech(i) ==
    \A s \in ScenarioSpeech :
        FrameEnd(i, ScenarioSamples) <= s.from \/ s.to <= FrameStart(i)
StraddlingFrames == {i \in ScenarioFrames : ~InsideSpeech(i) /\ ~OutsideSpeech(i)}

\* the request's thresholds: 200 ms, and 0.4 as the least probability value >= 0.4
ScenarioMinDurationMs == 2 * 100
ScenarioMinProbability == (4 * ProbScale + 9) \div 10

\* The classifier's answer for frame i.  Its flag is its probability against the
\* threshold 0.5: speech frames come with 0.5 or 0.75, the others with 0.25.
ScenarioOutcome(i) ==
    IF InsideSpeech(i) \/ i \in scen.straddling
    THEN FrameResult(scen.probability, TRUE)
    ELSE FrameResult(ProbLo, FALSE)

InitScenario ==
    /\ VadIdle
    /\ tracked
    /\ WavIdle
    /\ filt = FiltIdle
    /\ out = OutNone
    /\ mrg = MrgIdle
    /\ calls = <<>>
    /\ scen \in [stage : {"chosen"}, straddling : SUBSET StraddlingFrames,
                 probability : {2 * ProbUnit, ProbHi}]

\* extractSpeechSegments lines 127-142 on the scenario's container
ScenarioStart ==
    /\ pc[Observed] = "idle"
    /\ audio' = [length |-> ScenarioSamples, sampleRate |-> SAMPLE_RATE]
    /\ pc' = [pc EXCEPT ![Observed] = IF isInitialized THEN "awaitLoad" ELSE "loading"]
    /\ UNCHANGED <<loaderVars, frameCount, fi, thrown, resp, tracked, acc, trace,
                   vadResult, extracted, response, notVad>>

\* one iteration of the frame loop, lines 35-92, the classifier answering as chosen
ScenarioFrame ==
    /\ pc[Observed] = "loop"
    /\ fi[Observed] < frameCount[Observed]
    /\ vadModule # 0 /\ vadHandle # 0
    /\ handles' = [handles EXCEPT ![vadHandle].fedBy = @ \cup {Observed}]
    /\ acc' = StepAcc(acc, fi[Observed], audio.length, audio.sampleRate,
                      ScenarioOutcome(fi[Observed]))
    /\ trace' = Append(trace, ScenarioOutcome(fi[Observed]))
    /\ fi' = [fi EXCEPT ![Observed] = fi[Observed] + 1]
    /\ UNCHANGED <<vadModule, vadHandle, vadHandlePtr, isInitialized, modules, ptrs,
                   pc, frameCount, thrown, resp, tracked, audio, vadResult, extracted,
                   response, notVad>>

\* extractSpeechSegments lines 148-198 with the scenario's thresholds
ScenarioExtract ==
    /\ pc[Observed] = "awaitVAD"
    /\ extracted' = ExtractTail(UploadBuffer(audio.length, audio.sampleRate),
                                vadResult, audio.sampleRate,
                                ScenarioMinDurationMs, ScenarioMinProbability)
    /\ pc' = [pc EXCEPT ![Observed] = "awaitExtract"]
    /\ UNCHANGED <<loaderVars, frameCount, fi, thrown, resp, tracked, audio, acc, trace,
                   vadResult, response, notVad>>

NextScenario ==
    \/ ScenarioStart
    \/ LoadResolve(Observed)
    \/ CreateInstance(Observed)
    \/ LoopStart(Observed)
    \/ ScenarioFrame
    \/ LoopEnd(Observed)
    \/ ScenarioExtract
    \/ RouteAfterVAD(Observed)
    \/ Transcribe(Observed)
    \/ Catch(Observed)

SpecScenario == InitScenario /\ [][NextScenario]_vars

--------------------------------------------------------------------------
(* SpecLoader: one caller of vadLoader.ts, as the test scripts are, calling
   loadVADModule, createVADInstance, destroyVADInstance (cleanupVAD) and
   processAudioFrame in any order.  The WASM exports are taken to return; a
   trap inside them is not followed. *)

\* the state of the cell a pointer names ("none" for null)
CellOf(p) == IF p = 0 THEN "none" ELSE ptrs[p]

InitLoader ==
    /\ VadIdle
    /\ ~tracked
    /\ WavIdle
    /\ filt = FiltIdle
    /\ OthersIdle

\* loadVADModule lines 18-31: loadTENVAD() resolves
LoaderLoad ==
    /\ ~isInitialized
    /\ modules' = modules + 1
    /\ vadModule' = modules + 1
    /\ isInitialized' = TRUE
    /\ UNCHANGED <<vadHandle, vadHandlePtr, handles, ptrs, procVars, dataVars, notVad>>

\* createVADInstance lines 45-64
CreateCall ==
    /\ Len(calls) < MaxCalls
    /\ IF vadModule = 0
       THEN \* throws 'VAD module not loaded'
            /\ calls' = Append(calls, [call |-> "create", result |-> "threw", ptr |-> 0,
                                       cell |-> "none", handle |-> 0])
            /\ UNCHANGED <<vadHandle, vadHandlePtr, handles, ptrs>>
       ELSE /\ vadHandlePtr' = Len(ptrs) + 1
            /\ \/ \* ten_vad_create returned 0: the handle is read from the cell
                  /\ handles' = Append(handles, [module |-> vadModule, creator |-> Observed,
                                                 fedBy |-> {}])
                  /\ vadHandle' = Len(handles) + 1
                  /\ ptrs' = Append(ptrs, "live")
                  /\ calls' = Append(calls, [call |-> "create", result |-> "true",
                                             ptr |-> Len(ptrs) + 1, cell |-> "live",
                                             handle |-> Len(handles) + 1])
               \/ \* ten_vad_create failed: the cell is freed, false is returned
                  /\ ptrs' = Append(ptrs, "freed")
                  /\ calls' = Append(calls, [call |-> "create", result |-> "false",
                                             ptr |-> Len(ptrs) + 1, cell |-> "freed",
                                             handle |-> 0])
                  /\ UNCHANGED <<handles, vadHandle>>
    /\ UNCHANGED <<vadModule, isInitialized, modules, procVars, dataVars,
                   wavVars, filt, out, mrg, scen>>

\* destroyVADInstance lines 67-74 (cleanupVAD, lines 201-203, is this call)
DestroyCall ==
    /\ Len(calls) < MaxCalls
    /\ calls' = Append(calls, [call |-> "destroy",
                               result |-> IF vadHandlePtr # 0 /\ vadModule # 0
                                          THEN "freed" ELSE "skipped",
                               ptr |-> vadHandlePtr, cell |-> CellOf(vadHandlePtr),
                               handle |-> vadHandle])
    /\ IF vadHandlePtr # 0 /\ vadModule # 0
       THEN \* _ten_vad_destroy(vadHandlePtr); _free(vadHandlePtr)
            /\ ptrs' = [ptrs EXCEPT ![vadHandlePtr] = "freed"]
            /\ vadHandlePtr' = 0
            /\ vadHandle' = 0
       ELSE UNCHANGED <<ptrs, vadHandlePtr, vadHandle>>
    /\ UNCHANGED <<vadModule, isInitialized, modules, handles, procVars, dataVars,
                   wavVars, filt, out, mrg, scen>>

\* processAudioFrame lines 82-114
ProcessCall ==
    /\ Len(calls) < MaxCalls
    /\ IF vadModule = 0 \/ vadHandle = 0
       THEN \* throws 'VAD not initialized'
            /\ calls' = Append(calls, [call |-> "process", result |-> "notInitialized",
                                       ptr |-> vadHandlePtr, cell |-> CellOf(vadHandlePtr),
                                       handle |-> vadHandle])
            /\ UNCHANGED handles
       ELSE \* _ten_vad_process(vadHandle, ..) returns 0 or an error code
            /\ \E r \in {"returned", "threw"} :
                  calls' = Append(calls, [call |-> "process", result |-> r,
                                          ptr |-> vadHandlePtr,
                                          cell |-> CellOf(vadHandlePtr),
                                          handle |-> vadHandle])
            /\ handles' = [handles EXCEPT ![vadHandle].fedBy = @ \cup {Observed}]
    /\ UNCHANGED <<vadModule, vadHandle, vadHandlePtr, isInitialized, modules, ptrs,
                   procVars, dataVars, wavVars, filt, out, mrg, scen>>

NextLoader ==
    \/ LoaderLoad
    \/ CreateCall
    \/ DestroyCall
    \/ ProcessCall

SpecLoader == InitLoader /\ [][NextLoader]_vars

--------------------------------------------------------------------------
(* SpecMerge: mergeAudioSegments on arbitrary segment lists *)

\* segments by their samples: none, one or two of them, of either sign
MergeData == UNION {[1..n -> {-1, 7}] : n \in 0..2}
MergeSegments ==
    {[startFrame |-> 0, endFrame |-> Len(d), startTime |-> 0,
      endTime |-> TimeOf(Len(d), 16000), data |-> d, isSpeech |-> TRUE,
      probability |-> ProbHi] : d \in MergeData}
MergeLists == UNION {[1..n -> MergeSegments] : n \in 0..MaxSegments}

InitMerge ==
    /\ VadIdle
    /\ ~tracked
    /\ WavIdle
    /\ filt = FiltIdle
    /\ out = OutNone
    /\ scen = ScenIdle
    /\ calls = <<>>
    /\ \E ss \in MergeLists : mrg = [stage |-> "input", segments |-> ss, merged |-> <<>>]

Merge ==
    /\ mrg.stage = "input"
    /\ mrg' = [mrg EXCEPT !.merged = mergeAudioSegments(mrg.segments),
                          !.stage = "merged"]
    /\ UNCHANGED <<wavVars, vadVars, filt, out, scen, calls>>

NextMerge == Merge

SpecMerge == InitMerge /\ [][NextMerge]_vars

--------------------------------------------------------------------------
(* Claims about the container codec, checked under SpecWav *)

\* the chunks of a container as the format lays them out from byte 12: tag, size,
\* payload, a pad byte after an odd size
RECURSIVE ContainerChunks(_, _)
ContainerChunks(b, o) ==
    IF o + 8 > Len(b) THEN <<>>
    ELSE LET size == GetUint32(b, o + 4)
         IN  <<[off |-> o, tag |-> TagAt(b, o), size |-> size]>>
             \o ContainerChunks(b, o + 8 + size + (size % 2))

ParseFinished == wres.kind # "none"

\* C4: a non-empty int16 buffer encoded with createWAVBuffer(samples, sr, 1) parses
\* without error to a header with the same sample rate, 1 channel and 16 bits, and
\* extractMonoAudio gives back exactly the samples.
C4_RoundTrip ==
    (origin.kind = "encoded" /\ origin.channels = 1 /\ Len(origin.samples) > 0) =>
        /\ wres.kind # "error"
        /\ mono.kind # "error"
        /\ wres.kind = "header" =>
              /\ wres.header.sampleRate = origin.sampleRate
              /\ wres.header.channels = 1
              /\ wres.header.bitsPerSample = 16
        /\ mono.kind = "samples" => mono.samples = origin.samples

\* C4 witness: a round trip of three samples, a negative one among them, has finished
C4_Witness ==
    /\ origin.kind = "encoded"
    /\ origin.channels = 1
    /\ origin.samples = <<-1, 255, -32768>>
    /\ origin.sampleRate = 2^28
    /\ mono.kind = "samples"
    /\ wpc = "vad"

\* C5 (as claimed): whenever the first 4 bytes are not RIFF, bytes 8-11 are not WAVE,
\* a fmt chunk of the container reports audioFormat # 1 or bitsPerSample # 16, or the
\* container has no data chunk, parseWAVHeader throws and returns no header.
C5_Malformed(b) ==
    \/ Len(b) < 4 \/ TagAt(b, 0) # TagRIFF
    \/ Len(b) < 12 \/ TagAt(b, 8) # TagWAVE
    \/ LET cs == ContainerChunks(b, 12)
       IN  \/ \E i \in 1..Len(cs) :
                /\ cs[i].tag = TagFmt
                /\ \/ cs[i].off + 10 <= Len(b) /\ GetUint16(b, cs[i].off + 8) # 1
                   \/ cs[i].off + 24 <= Len(b) /\ GetUint16(b, cs[i].off + 22) # 16
           \/ \A i \in 1..Len(cs) : cs[i].tag # TagData
C5_MalformedRejected ==
    (ParseFinished /\ C5_Malformed(buf)) => wres.kind = "error"

\* C6 (as claimed): every header parseWAVHeader returns is one of a validated 16-bit
\* PCM container: a fmt chunk was read and passed both checks, bitsPerSample is 16
\* and channels is at least 1.
C6_HeaderValidated ==
    wres.kind = "header" =>
        /\ wres.header.bitsPerSample = 16
        /\ wres.header.channels >= 1
        /\ \E i \in 1..Len(seenFmt) : seenFmt[i].audioFormat = 1

\* C10 (as claimed): a request whose container parsing raised one of the five format
\* errors is answered with a 4xx status.
C10_FormatErrorIs4xx ==
    (status # 0 /\ wres.kind = "error" /\ wres.msg \in FormatMsgs) =>
        (status >= 400 /\ status <= 499)

--------------------------------------------------------------------------
(* Claims about the frame loop and the extraction, checked under Spec *)

IsSpeechOutcome(o) == o.kind = "result" /\ o.isSpeech
IsSilenceOutcome(o) == o.kind = "result" /\ ~o.isSpeech

\* the number of maximal runs of consecutive speech outcomes in a sequence of outcomes
RunsOf(t) ==
    Cardinality({i \in 1..Len(t) :
                    IsSpeechOutcome(t[i]) /\ (i = 1 \/ ~IsSpeechOutcome(t[i - 1]))})

\* the outcomes of the frames that were classified, failed frames left out
Classified(t) == SelectSeq(t, LAMBDA o : o.kind = "result")

RECURSIVE SumProbability(_)
SumProbability(t) ==
    IF t = <<>> THEN 0 ELSE Head(t).probability + SumProbability(Tail(t))

\* processAudioWithVAD of the observed invocation has just returned
VadReturned == pc[Observed] = "awaitVAD"

\* C1 (as claimed): the number of segments returned equals the number of maximal
\* contiguous runs of frames classified as speech, a trailing run included.
C1_SegmentsEqualRuns ==
    VadReturned => Len(vadResult.segments) = RunsOf(trace)

\* C1 (amended): the number of segments returned equals the number of maximal runs
\* of speech frames in the sequence of the frames that were classified; a frame
\* whose classification failed neither extends nor ends a run.
C1_SegmentsEqualClassifiedRuns ==
    VadReturned => Len(vadResult.segments) = RunsOf(Classified(trace))

\* C1 witness: speech, a failed frame, speech up to the end of the input: one
\* segment is returned, closed by the end of the input
C1_Witness ==
    /\ VadReturned
    /\ Len(trace) = 3
    /\ IsSpeechOutcome(trace[1])
    /\ trace[2].kind = "fail"
    /\ IsSpeechOutcome(trace[3])
    /\ Len(vadResult.segments) = 1

\* C2: the returned segments are in temporal order and do not overlap, and between
\* any two consecutive segments lies a frame that was classified as non-speech.
C2_OrderedSeparated ==
    VadReturned =>
        LET segs == vadResult.segments
        IN  /\ \A k \in 1..Len(segs) :
                  /\ segs[k].startTime < segs[k].endTime
                  /\ segs[k].startFrame < segs[k].endFrame
            /\ \A k \in 1..(Len(segs) - 1) :
                  /\ segs[k].endTime <= segs[k + 1].startTime
                  /\ segs[k].endFrame <= segs[k + 1].startFrame
                  /\ \E j \in 1..Len(trace) :
                        /\ IsSilenceOutcome(trace[j])
                        /\ segs[k].endFrame <= FrameStart(j - 1)
                        /\ FrameEnd(j - 1, audio.length) <= segs[k + 1].startFrame

\* C2 witness: two segments were returned
C2_Witness ==
    /\ VadReturned
    /\ Len(vadResult.segments) = 2

\* C7: a frame whose classification fails does not end the run: the step leaves the
\* counters, the open segment and the segment list as they were and the loop goes
\* on; every frame is attempted and the aggregates are those of the classified
\* frames, the later ones included.
C7_FailStep ==
    /\ pc[Observed] = "loop"
    /\ Len(trace') = Len(trace) + 1
    /\ trace'[Len(trace')].kind = "fail"
C7_FrameFailureSkipped ==
    /\ [][C7_FailStep => /\ acc' = acc
                         /\ pc'[Observed] = "loop"
                         /\ fi'[Observed] = fi[Observed] + 1
                         /\ thrown' = thrown]_vars
    /\ [](VadReturned =>
            /\ Len(trace) = frameCount[Observed]
            /\ vadResult.totalFrames = frameCount[Observed]
            /\ vadResult.speechFrames =
                   Cardinality({i \in 1..Len(trace) : IsSpeechOutcome(trace[i])})
            /\ vadResult.avgProbability[1] = SumProbability(Classified(trace)))

\* C7 witness: a frame failed while a segment was open, and the frame after it was
\* classified as speech and accumulated into that segment
C7_Witness ==
    /\ VadReturned
    /\ trace = <<FrameResult(ProbHi, TRUE), FrameFail, FrameResult(ProbLo, TRUE)>>
    /\ vadResult.speechFrames = 2
    /\ vadResult.avgProbability[1] = ProbHi + ProbLo
    /\ Len(vadResult.segments[1].data) = 2

\* C8: extractSpeechSegments reports speechFound exactly when a segment survives the
\* filter; when none survives it returns the VAD result as it was and the original
\* buffer as processedBuffer.
C8_NoSpeechReturnsOriginal ==
    /\ pc[Observed] = "awaitExtract" => extracted.returned
    /\ extracted.returned =>
          LET survivors ==
                  {k \in 1..Len(vadResult.segments) :
                      /\ vadResult.segments[k].isSpeech
                      /\ vadResult.segments[k].endTime - vadResult.segments[k].startTime
                             >= extracted.minDurationMs * 1000
                      /\ vadResult.segments[k].probability >= extracted.minProbability}
          IN  /\ extracted.speechFound <=> survivors # {}
              /\ survivors = {} =>
                    /\ ~extracted.speechFound
                    /\ extracted.vadResult = vadResult
                    /\ extracted.processedBuffer = extracted.originalBuffer
                    /\ extracted.processedBuffer =
                           UploadBuffer(audio.length, audio.sampleRate)

\* C8 witness: segments were found and the filter dropped all of them
C8_Witness ==
    /\ extracted.returned
    /\ ~extracted.speechFound
    /\ Len(vadResult.segments) > 0
    /\ extracted.processedBuffer.kind = "upload"

--------------------------------------------------------------------------
(* Claim about overlapping invocations, checked under SpecConc *)

\* C9 (as claimed): an invocation that has fed frames to the classifier fed them to
\* a handle that it created itself and that no other invocation has fed.
C9_OwnHandle ==
    \A p \in Procs :
        (pc[p] = "loop" /\ fi[p] > 0) =>
            /\ vadHandle # 0
            /\ handles[vadHandle].creator = p
            /\ handles[vadHandle].fedBy = {p}

--------------------------------------------------------------------------
(* Claim about the filter, checked under SpecFilter *)

\* C3: filtering is idempotent: filtering the filtered list again with the same
\* thresholds gives the same list.
C3_FilterIdempotent ==
    filt.stage = "twice" => filt.twice = filt.once

\* C3 witness: a list with a non-speech segment, of which the filter kept two
\* segments and dropped at least one, was filtered twice
C3_Witness ==
    /\ filt.stage = "twice"
    /\ Len(filt.once) = 2
    /\ Len(filt.once) < Len(filt.segments)
    /\ \E k \in 1..Len(filt.segments) : ~filt.segments[k].isSpeech

--------------------------------------------------------------------------
(* Further claims about one invocation, checked under Spec *)

\* C11: an invocation whose container parsing threw (a bit depth of 8, say) never
\* reaches the classifier: no module is loaded, no instance is created, no frame is
\* classified, and the request is answered from the catch block.
C11_ParseFailureBeforeVAD ==
    thrown[Observed] \in ParseThrows =>
        /\ modules = 0 /\ vadModule = 0 /\ ~isInitialized
        /\ handles = <<>> /\ ptrs = <<>> /\ vadHandle = 0 /\ vadHandlePtr = 0
        /\ trace = <<>> /\ fi[Observed] = 0
        /\ pc[Observed] \in {"threw", "answered"}

\* C11 witness: the request with the 8-bit container has been answered
C11_Witness ==
    /\ thrown[Observed] = MsgBitDepth
    /\ pc[Observed] = "answered"
    /\ resp[Observed] # 0

\* C12: with no whole frame in the input (fewer than 256 samples) the result has
\* totalFrames 0, speechPercentage 0 and avgProbability 0, no quotient is ever taken
\* over zero frames, and no segment is returned.
C12_ZeroFrames ==
    VadReturned =>
        /\ vadResult.speechPercentage[2] # 0
        /\ vadResult.avgProbability[2] # 0
        /\ (audio.length < HOP_SIZE) <=> (vadResult.totalFrames = 0)
        /\ vadResult.totalFrames = 0 =>
              /\ vadResult.speechPercentage[1] = 0
              /\ vadResult.avgProbability[1] = 0
              /\ vadResult.segments = <<>>
              /\ vadResult.speechFrames = 0
              /\ ~vadResult.hasSpeech

\* C12 witness: an input of 100 samples went through processAudioWithVAD
C12_Witness ==
    /\ VadReturned
    /\ audio.length = 100
    /\ vadResult.totalFrames = 0

\* C17: when no frame is classified as speech there is no segment, speechPercentage
\* is 0, hasSpeech is false, extractSpeechSegments reports speechFound = false and
\* the request is answered 400.
C17_NoSpeechFrames ==
    (extracted.returned /\ \A i \in 1..Len(trace) : ~IsSpeechOutcome(trace[i])) =>
        /\ vadResult.segments = <<>>
        /\ vadResult.speechPercentage[1] = 0
        /\ ~vadResult.hasSpeech
        /\ ~extracted.speechFound
        /\ extracted.filteredSegments = <<>>
        /\ pc[Observed] = "answered" => resp[Observed] = 400

\* C17 witness: two or more frames, all classified non-speech, and the answer given
C17_Witness ==
    /\ extracted.returned
    /\ Len(trace) >= 2
    /\ \A i \in 1..Len(trace) : IsSilenceOutcome(trace[i])
    /\ pc[Observed] = "answered"
    /\ resp[Observed] = 400

\* C19 (as claimed): every frame handed to the classifier has 256 samples, and when
\* the sample count is no multiple of 256 the last, partial frame is handed to the
\* classifier too, so that every sample of the input lies in a classified frame.
C19_PartialFramePadded ==
    VadReturned =>
        /\ \A i \in 1..Len(trace) :
              FrameEnd(i - 1, audio.length) - FrameStart(i - 1) = HOP_SIZE
        /\ Len(trace) * HOP_SIZE >= audio.length

--------------------------------------------------------------------------
(* Further claim about overlapping invocations, checked under SpecConc *)

\* the instances that were created and not destroyed
LiveInstances == {i \in 1..Len(ptrs) : ptrs[i] = "live"}

\* C20 (as claimed): the instances are released or reused: once every invocation
\* has ended, at most one instance, the one kept for reuse, is still alive.
C20_InstancesReleased ==
    (\A p \in Procs : pc[p] = "answered") => Cardinality(LiveInstances) <= 1

--------------------------------------------------------------------------
(* Further claim about the filter, checked under SpecFilter *)

\* the positions of the segments of filt.segments that the filter is to keep
C13_Kept ==
    {k \in 1..Len(filt.segments) :
        /\ filt.segments[k].isSpeech
        /\ filt.segments[k].endTime - filt.segments[k].startTime
               >= filt.minDurationMs * 1000
        /\ filt.segments[k].probability >= filt.minProbability}

\* C13: filterSpeechSegments keeps a segment exactly when it is speech, lasts at
\* least minDurationMs and has at least minProbability; the result is the kept
\* segments in their order, and the input list stays as it was.
C13_FilterKeepsExactly ==
    /\ [](filt.stage \in {"once", "twice"} =>
            /\ Len(filt.once) = Cardinality(C13_Kept)
            /\ \A k \in C13_Kept :
                  filt.once[Cardinality({k2 \in C13_Kept : k2 <= k})] = filt.segments[k])
    /\ [][filt.stage # "idle" => filt'.segments = filt.segments]_vars

\* C13 witness: of three segments the filter dropped the first, which is not speech,
\* and kept the two behind it, which meet both thresholds exactly
C13_Witness ==
    /\ filt.stage = "once"
    /\ Len(filt.segments) = 3
    /\ ~filt.segments[1].isSpeech
    /\ filt.minDurationMs = 32
    /\ filt.minProbability = ProbHi
    /\ C13_Kept = {2, 3}
    /\ filt.once = <<filt.segments[2], filt.segments[3]>>

--------------------------------------------------------------------------
(* Further claims about the container codec, checked under SpecWav *)

\* the n bytes of b from offset off are the little-endian bytes of v
LittleEndian(b, off, n, v) ==
    \A k \in 0..(n - 1) : b[off + k + 1] = (v \div (2^(8 * k))) % 256

\* the 44-byte header and the samples of a container of 16-bit PCM
LayoutOf(b, samples, sampleRate, channels) ==
    LET n == Len(samples)
    IN  /\ Len(b) = 44 + 2 * n
        /\ SubSeq(b, 1, 4) = <<82, 73, 70, 70>>            \* RIFF
        /\ LittleEndian(b, 4, 4, 36 + 2 * n)
        /\ SubSeq(b, 9, 12) = <<87, 65, 86, 69>>           \* WAVE
        /\ SubSeq(b, 13, 16) = <<102, 109, 116, 32>>       \* fmt and a blank
        /\ LittleEndian(b, 16, 4, 16)
        /\ LittleEndian(b, 20, 2, 1)
        /\ LittleEndian(b, 22, 2, channels)
        /\ LittleEndian(b, 24, 4, sampleRate)
        /\ LittleEndian(b, 28, 4, sampleRate * channels * 2)
        /\ LittleEndian(b, 32, 2, channels * 2)
        /\ LittleEndian(b, 34, 2, 16)
        /\ SubSeq(b, 37, 40) = <<100, 97, 116, 97>>        \* data
        /\ LittleEndian(b, 40, 4, 2 * n)
        /\ \A i \in 1..n :
              LittleEndian(b, 44 + 2 * (i - 1), 2,
                           IF samples[i] < 0 THEN samples[i] + 2^16 ELSE samples[i])

\* C18: createWAVBuffer emits 44 + 2n bytes in the layout above, and the buffer the
\* pipeline encodes has one channel whatever the channel count of the input.
C18_EncodedLayout ==
    /\ (origin.kind = "encoded" /\ wpc # "encode") =>
          LayoutOf(buf, origin.samples, origin.sampleRate, origin.channels)
    /\ out.kind = "encoded" =>
          LayoutOf(out.bytes, out.samples, wres.header.sampleRate, 1)

\* C18 witness: a container of two channels was parsed and its second and third
\* first-channel samples were encoded, as a container of one channel
C18_Witness ==
    /\ out.kind = "encoded"
    /\ wres.header.channels = 2
    /\ origin.kind = "foreign"
    /\ out.samples = <<3>>
    /\ out.bytes[23] = 1

\* C15: for a header of N > 1 channels extractMonoAudio returns floor(raw / N)
\* samples, raw being the number of 16-bit samples of the data region inside the
\* buffer, and its sample i is sample i * N of the region: the first channel.
C15_FirstChannelOnly ==
    (mono.kind = "samples" /\ wres.header.channels > 1) =>
        LET h == wres.header
            stop == IF h.dataOffset + h.dataSize < Len(buf)
                    THEN h.dataOffset + h.dataSize ELSE Len(buf)
            rawCount == (stop - h.dataOffset) \div 2
            u(j) == buf[h.dataOffset + 2 * j + 1] + 256 * buf[h.dataOffset + 2 * j + 2]
            Raw(j) == IF u(j) >= 2^15 THEN u(j) - 2^16 ELSE u(j)
        IN  /\ Len(mono.samples) = rawCount \div h.channels
            /\ \A i \in 0..(Len(mono.samples) - 1) :
                  mono.samples[i + 1] = Raw(i * h.channels)

\* C15 witness: four interleaved samples of two channels gave the first and third
C15_Witness ==
    /\ mono.kind = "samples"
    /\ wres.header.channels = 2
    /\ wres.header.dataSize = 8
    /\ mono.samples = <<1, 3>>

--------------------------------------------------------------------------
(* Claim about the merge, checked under SpecMerge *)

\* the number of samples of the first k segments of a list
RECURSIVE SamplesBefore(_, _)
SamplesBefore(segments, k) ==
    IF k = 0 THEN 0 ELSE SamplesBefore(segments, k - 1) + Len(segments[k].data)

\* C14: mergeAudioSegments returns the samples of the segments one segment after the
\* other in list order: as many samples as the segments hold together, the samples
\* of segment k in their order right behind those of the segments before it; an
\* empty list gives an empty buffer.
C14_MergeConcatenates ==
    mrg.stage = "merged" =>
        /\ Len(mrg.merged) = SamplesBefore(mrg.segments, Len(mrg.segments))
        /\ \A k \in 1..Len(mrg.segments) :
              \A i \in 1..Len(mrg.segments[k].data) :
                  mrg.merged[SamplesBefore(mrg.segments, k - 1) + i]
                      = mrg.segments[k].data[i]
        /\ mrg.segments = <<>> => mrg.merged = <<>>

\* C14 witness: three segments, the middle one without samples, were merged
C14_Witness ==
    /\ mrg.stage = "merged"
    /\ Len(mrg.segments) = 3
    /\ mrg.segments[1].data = <<7>>
    /\ mrg.segments[2].data = <<>>
    /\ mrg.segments[3].data = <<-1, 7>>
    /\ mrg.merged = <<7, -1, 7>>

--------------------------------------------------------------------------
(* Claim about the five-second scenario, checked under SpecScenario *)

\* the distance of the merged buffer's length from 2.5 s, in samples
ScenarioDeviation ==
    LET merged == DataLength(extracted.processedBuffer.samples)
        wanted == (5 * SAMPLE_RATE) \div 2
    IN  IF merged >= wanted THEN merged - wanted ELSE wanted - merged

\* C16 (as claimed): in the scenario exactly 2 segments survive the filter and the
\* merged buffer is within one hop (256 samples) of 2.5 s.
C16_ScenarioWithinOneHop ==
    extracted.returned =>
        /\ Len(extracted.filteredSegments) = 2
        /\ ScenarioDeviation <= HOP_SIZE

\* C16 (amended): in the scenario exactly 2 segments survive the filter and the
\* merged buffer is within two hops (512 samples) of 2.5 s, one hop for each
\* segment: either interval starts inside a frame.
C16_ScenarioWithinTwoHops ==
    extracted.returned =>
        /\ Len(vadResult.segments) = 2
        /\ Len(extracted.filteredSegments) = 2
        /\ extracted.speechFound
        /\ extracted.processedBuffer.kind = "created"
        /\ ScenarioDeviation <= 2 * HOP_SIZE

\* C16 witness: neither straddling frame was classified as speech; the two segments
\* survive and the merged buffer is 320 samples short of 2.5 s
C16_Witness ==
    /\ extracted.returned
    /\ scen.straddling = {}
    /\ Len(trace) = FrameCountOf(ScenarioSamples)
    /\ Len(extracted.filteredSegments) = 2
    /\ ScenarioDeviation = HOP_SIZE + 64

--------------------------------------------------------------------------
(* Claims about the segments' fields and the statistics, checked under Spec *)

\* Frames by their index from 0.  A speech frame opens a run when no speech frame
\* lies before it with nothing but failed frames in between, and closes a run when
\* none lies behind it in that way.
SpeechFrame(t, i) == i \in 0..(Len(t) - 1) /\ IsSpeechOutcome(t[i + 1])
OnlyFailuresBetween(t, i, j) == \A m \in (i + 1)..(j - 1) : t[m + 1].kind = "fail"
Openers(t) ==
    {i \in 0..(Len(t) - 1) :
        /\ SpeechFrame(t, i)
        /\ ~\E j \in 0..(i - 1) : SpeechFrame(t, j) /\ OnlyFailuresBetween(t, j, i)}
Closers(t) ==
    {i \in 0..(Len(t) - 1) :
        /\ SpeechFrame(t, i)
        /\ ~\E j \in (i + 1)..(Len(t) - 1) :
               SpeechFrame(t, j) /\ OnlyFailuresBetween(t, i, j)}
Kth(S, k) == CHOOSE x \in S : Cardinality({y \in S : y <= x}) = k
\* the speech frames of the k-th run, and the j-th of them
RunFrames(t, k) ==
    {i \in 0..(Len(t) - 1) :
        SpeechFrame(t, i) /\ Kth(Openers(t), k) <= i /\ i <= Kth(Closers(t), k)}
RunFrame(t, k, j) == Kth(RunFrames(t, k), j)

C23_SegmentSamples ==
    /\ [](VadReturned =>
            \A k \in 1..Len(vadResult.segments) :
                /\ Len(vadResult.segments[k].data) = Cardinality(RunFrames(trace, k))
                /\ \A j \in 1..Len(vadResult.segments[k].data) :
                      vadResult.segments[k].data[j] =
                          [from |-> RunFrame(trace, k, j) * HOP_SIZE,
                           to |-> (RunFrame(trace, k, j) + 1) * HOP_SIZE])
    /\ [][pc[Observed] = "loop" =>
            /\ \A k \in 1..Len(acc.segments) :
                  Len(acc'.segments) >= k /\ acc'.segments[k] = acc.segments[k]
            /\ pc'[Observed] = "awaitVAD" =>
                  \A k \in 1..Len(acc.segments) : vadResult'.segments[k] = acc.segments[k]
          ]_vars

\* C23 witness: a segment of two frames with a non-speech frame behind it
C23_Witness ==
    /\ VadReturned
    /\ Len(trace) = 3
    /\ IsSilenceOutcome(trace[3])
    /\ Len(vadResult.segments) = 1
    /\ vadResult.segments[1].data =
           <<[from |-> 0, to |-> HOP_SIZE], [from |-> HOP_SIZE, to |-> 2 * HOP_SIZE]>>

\* the fold of C24 over the probabilities of the first n speech frames of run k
RECURSIVE HalvingFold(_, _, _)
HalvingFold(t, k, n) ==
    IF n = 1 THEN t[RunFrame(t, k, 1) + 1].probability
    ELSE (HalvingFold(t, k, n - 1) + t[RunFrame(t, k, n) + 1].probability) \div 2

\* C24: a segment's probability is p_1 of its opening frame folded with each later
\* speech frame k by p := (p + p_k) / 2.
C24_ProbabilityFold ==
    VadReturned =>
        \A k \in 1..Len(vadResult.segments) :
            vadResult.segments[k].probability =
                HalvingFold(trace, k, Cardinality(RunFrames(trace, k)))

\* C24 witness: three speech frames of probabilities 0.75, 0.25, 0.25 gave 0.375,
\* where their mean is 0.4166
C24_Witness ==
    /\ VadReturned
    /\ trace = <<FrameResult(ProbHi, TRUE), FrameResult(ProbLo, TRUE),
                 FrameResult(ProbLo, TRUE)>>
    /\ 2 * vadResult.segments[1].probability = ProbHi

\* C26: totalFrames = floor(sampleCount / 256); speechFrames counts the frames
\* classified as speech, within 0..totalFrames; speechPercentage lies in 0..100;
\* hasSpeech holds exactly when speechFrames > 0; avgProbability is the sum of the
\* classified frames' probabilities over totalFrames.
C26_Statistics ==
    VadReturned =>
        /\ vadResult.totalFrames * HOP_SIZE <= audio.length
        /\ audio.length < (vadResult.totalFrames + 1) * HOP_SIZE
        /\ vadResult.speechFrames = Cardinality({i \in 0..(Len(trace) - 1) : SpeechFrame(trace, i)})
        /\ 0 <= vadResult.speechFrames /\ vadResult.speechFrames <= vadResult.totalFrames
        /\ 0 <= vadResult.speechPercentage[1]
        /\ vadResult.speechPercentage[1] <= 100 * vadResult.speechPercentage[2]
        /\ vadResult.totalFrames > 0 =>
              /\ vadResult.speechPercentage = <<100 * vadResult.speechFrames, vadResult.totalFrames>>
              /\ vadResult.avgProbability =
                     <<SumProbability(Classified(trace)), vadResult.totalFrames>>
        /\ vadResult.hasSpeech <=> vadResult.speechFrames > 0

\* C26 witness: 356 samples, one frame of speech
C26_Witness ==
    /\ VadReturned
    /\ audio.length = HOP_SIZE + 100
    /\ vadResult.totalFrames = 1
    /\ vadResult.speechFrames = 1
    /\ vadResult.avgProbability = <<ProbHi, 1>>

\* C27: every returned segment holds a positive multiple of 256 samples, and the
\* returned segments together hold 256 * speechFrames samples.
C27_SegmentSampleCounts ==
    VadReturned =>
        /\ \A k \in 1..Len(vadResult.segments) :
              /\ DataLength(vadResult.segments[k].data) > 0
              /\ DataLength(vadResult.segments[k].data) % HOP_SIZE = 0
        /\ DataLength(mergeAudioSegments(vadResult.segments))
               = HOP_SIZE * vadResult.speechFrames

\* C27 witness: speech, a failed frame, speech: one segment of two frames
C27_Witness ==
    /\ VadReturned
    /\ Len(trace) = 3
    /\ trace[2].kind = "fail"
    /\ vadResult.speechFrames = 2
    /\ Len(vadResult.segments) = 1
    /\ DataLength(vadResult.segments[1].data) = 2 * HOP_SIZE

--------------------------------------------------------------------------
(* Claims about the 200 answer, checked under Spec *)

\* C21 (as claimed): in the 200 answer segmentsFound is the number of segments the
\* accumulator produced and segmentsKept the number of segments that passed the
\* filter and were merged.
C21_SegmentsKeptIsFiltered ==
    resp[Observed] = 200 =>
        /\ response.vadStats.segmentsFound = Len(vadResult.segments)
        /\ response.vadStats.segmentsKept = Len(extracted.filteredSegments)
        /\ response.vadStats.segmentsKept <= response.vadStats.segmentsFound

\* C29: when extractSpeechSegments reports speech, the merged buffer holds at least
\* 256 samples and at most the samples of the mono original; in the 200 answer the
\* processed duration is at most the original one and the compression ratio lies
\* in (0, 1].
C29_ProcessedWithinOriginal ==
    /\ extracted.speechFound =>
          /\ DataLength(extracted.processedBuffer.samples) >= HOP_SIZE
          /\ DataLength(extracted.processedBuffer.samples) <= audio.length
    /\ resp[Observed] = 200 =>
          /\ response.audioStats.processedDurationMs <= response.audioStats.originalDurationMs
          /\ response.audioStats.compressionRatio[2] > 0
          /\ response.audioStats.compressionRatio[1] > 0
          /\ response.audioStats.compressionRatio[1] <= response.audioStats.compressionRatio[2]

\* C29 witness: a 200 answer for 868 samples of which one frame was kept
C29_Witness ==
    /\ resp[Observed] = 200
    /\ audio.length = 3 * HOP_SIZE + 100
    /\ DataLength(extracted.processedBuffer.samples) = HOP_SIZE
    /\ Len(vadResult.segments) = 2

--------------------------------------------------------------------------
(* Claims about the chunk walk of parseWAVHeader, checked under SpecWav and
   SpecWavFair *)

\* the chunks the walk visits from offset o: tag and little-endian size at o, the
\* next chunk at o + 8 + size, one further when size is odd, while o is below
\* byteLength - 8
RECURSIVE WalkFrom(_, _)
WalkFrom(b, o) ==
    IF o >= Len(b) - 8 THEN <<>>
    ELSE LET s == GetUint32(b, o + 4)
         IN  <<[off |-> o, tag |-> TagAt(b, o), size |-> s]>>
             \o WalkFrom(b, IF s % 2 = 1 THEN o + 8 + s + 1 ELSE o + 8 + s)

\* k is the first 'data' chunk of the walk w
FirstData(w, k) ==
    /\ k \in 1..Len(w)
    /\ w[k].tag = TagData
    /\ \A j \in 1..(k - 1) : w[j].tag # TagData

\* C25: while parseWAVHeader is in its loop the offset is that of a chunk of the
\* walk from 12 with no 'data' chunk before it (or the end of the walk); a header
\* is returned only for the first 'data' chunk of the walk, with dataOffset = o + 8
\* and dataSize = s of that chunk.
C25_FirstDataChunk ==
    LET w == WalkFrom(buf, 12)
    IN  /\ wpc = "loop" =>
              \/ \E k \in 1..Len(w) :
                    /\ w[k].off = offset
                    /\ \A j \in 1..(k - 1) : w[j].tag # TagData
              \/ /\ offset >= Len(buf) - 8
                 /\ \A j \in 1..Len(w) : w[j].tag # TagData
        /\ wres.kind = "header" =>
              \E k \in 1..Len(w) :
                  /\ FirstData(w, k)
                  /\ wres.header.dataOffset = w[k].off + 8
                  /\ wres.header.dataSize = w[k].size

\* C25 witness: a header returned for a 'data' chunk that follows a chunk of odd
\* size and its pad byte
C25_Witness ==
    LET w == WalkFrom(buf, 12)
    IN  /\ origin.kind = "foreign"
        /\ wres.kind = "header"
        /\ Len(w) = 2
        /\ w[1].size = 1
        /\ w[2].tag = TagData
        /\ wres.header.dataOffset = 12 + 8 + 1 + 1 + 8

\* C28: every iteration of the loop of parseWAVHeader that stays in the loop moves
\* the offset up; the loop is left with a 'data' chunk found, with an error thrown,
\* or with the offset at or past byteLength - 8; and every call reaches its return
\* or its throw.
C28_ParseTerminates ==
    /\ [][wpc = "loop" =>
            \/ wpc' = "loop" /\ offset' > offset
            \/ wpc' = "after" /\ hdr'.dataOffset = offset + 8
            \/ wpc' = "after" /\ offset >= Len(buf) - 8 /\ hdr' = hdr
            \/ wpc' = "threw" /\ wres'.kind = "error"]_vars
    /\ (wpc = "parse") ~> ParseFinished

\* C28 witness: the call returned after the offset had jumped far past the end of
\* the buffer on a declared size of 2^30
C28_Witness ==
    /\ ParseFinished
    /\ wpc = "threw"
    /\ offset > 2^30
    /\ hdr.dataOffset = -1

--------------------------------------------------------------------------
(* Claim about the handle cell of vadLoader.ts, checked under SpecLoader *)

\* the cell through which handle h was created
HandleCell(h) ==
    LET k == CHOOSE k \in 1..Len(calls) :
                 calls[k].call = "create" /\ calls[k].handle = h
    IN  calls[k].ptr

\* C30 (as claimed): every destroyVADInstance that destroys and frees does so on a
\* cell that is still allocated, and every processAudioFrame that reaches the
\* classifier uses the handle of the cell vadHandlePtr names, that cell being still
\* allocated: no cell is freed twice, no freed cell is read, and no handle left
\* over from an earlier instance is used after a failed createVADInstance.
C30_NoDoubleFreeNoStaleUse ==
    \A k \in 1..Len(calls) :
        /\ (calls[k].call = "destroy" /\ calls[k].result = "freed") =>
              calls[k].cell = "live"
        /\ (calls[k].call = "process" /\ calls[k].result # "notInitialized") =>
              /\ calls[k].cell = "live"
              /\ calls[k].ptr = HandleCell(calls[k].handle)

==========================================================================
